---- MODULE Spec2Model ----
(***************************************************************************)
(* Model of the Kuppam revenue-forecasting dashboard.                      *)
(*                                                                         *)
(*   ra2.py  - the forecasting pipeline (one run of the script)            *)
(*   app.py  - the FastAPI service that stores the run configuration and   *)
(*             starts ra2.py under a lock                                  *)
(*                                                                         *)
(* Numbers: every float of the program (target values, predictions,        *)
(* growth rates, PACF values) is held exactly, as an integer count of      *)
(* 1/Scale units.  NumPy arrays are sequences; a Python index i is the     *)
(* sequence position i + 1.  Results computed by the libraries (STL trend, *)
(* PACF, the fitted random forest, the Holt forecast) are inputs drawn in  *)
(* Init and kept in the record lib.                                        *)
(***************************************************************************)
EXTENDS Integers, Sequences, FiniteSets, TLC

\* ---------------------------------------------------------------- bounds
\* target columns processed by the column loop (13 in the deployed data)
NumCols == 2
\* largest --horizon the pipeline runs explore
MaxHorizon == 37
\* HTTP requests the service runs explore
MaxRequests == 3

\* ------------------------------------------------------ program constants
Step_size == 12
NLags == 48
n == 5
DEFAULT_CAGR == 4
DEFAULT_HORIZON == 60
HorizonLimit == 120

\* fixed-point unit: a float x is held as x * Scale
Scale == 10 * 10
\* upper limit of the growth rate, Field(le=1)
CagrLimit == 1 * Scale

Min(a, b) == IF a < b THEN a ELSE b
Max(a, b) == IF a > b THEN a ELSE b

\* ------------------------------------------------------------- variables
VARIABLES
    \* ---- ra2.py: inputs of one run
    args,          \* argparse namespace: [cgr, horizon]
    climate,       \* kuppam_climate_approx 2.csv: [n rows, fmt and first month of DateTime]
    df1,           \* Revenue_Sales_with_datetime 1.csv: [present, seed, nanCol]
    lib,           \* what the libraries compute: [pacfKind, level, slope, rgr]
    \* ---- ra2.py: module level
    pc,            \* position of the script
    var,           \* column loop: 1-based index of the current target column
    TestDates,
    Forecast_DF,   \* [TestDates, cols]; cols[c] is the column of target c
    outputs,       \* ./outputs: [dir, csv, table]
    fsOps,         \* file-system modifications made by this run, in order
    returncode,    \* exit status of the process, -1 while it runs
    failedAt,      \* the statement that raised, "" if none
    \* ---- ra2.py: locals of Forecasting_Func
    tr_Ind, act_tr_Ind, nSteps, s,
    Forecasts, corrcoef, pacfArg, ImpLags1,
    Y_tr, ARData, Y, ARF, X_test, ml_predictions, future_trend,
    \* ---- two runs of the block loop that differ only in the growth rate
    pair,          \* <<run under g1, run under g2>>: [cgr, Y, Forecasts, raw, tr_Ind, s]
    \* ---- app.py
    CAGR_CONFIG,   \* outputs/cagr_config.json: [exists, cagr, horizon]
    FORECAST_CSV,  \* outputs/New_Load_Forecast.csv: [exists, cagr, horizon] of the run that wrote it
    AUDIT_LOG_FILE, \* outputs/audit_log.json: the entries
    forecast_lock, \* _forecast_lock.locked()
    requests       \* the requests received, in order: [endpoint, pc, status, result,
                   \*   cgr, horizon, proc, returncode]

pipeVars == <<args, climate, df1, lib, pc, var, TestDates, Forecast_DF, outputs,
              fsOps, returncode, failedAt, tr_Ind, act_tr_Ind, nSteps, s,
              Forecasts, corrcoef, pacfArg, ImpLags1, Y_tr, ARData, Y, ARF,
              X_test, ml_predictions, future_trend>>

fnLocals == <<tr_Ind, act_tr_Ind, nSteps, s, Forecasts, corrcoef, pacfArg,
              ImpLags1, Y_tr, ARData, Y, ARF, X_test, ml_predictions, future_trend>>

appVars == <<CAGR_CONFIG, FORECAST_CSV, AUDIT_LOG_FILE, forecast_lock, requests>>

otherVars == <<pair, appVars>>

vars == <<pipeVars, pair, appVars>>

\* ------------------------------------------- app.py: state at startup
NoFile == [exists |-> FALSE, cagr |-> 0, horizon |-> 0]

\* the service has started; no run configuration or forecast is stored yet
InitApp ==
    /\ CAGR_CONFIG = NoFile
    /\ FORECAST_CSV = NoFile
    /\ AUDIT_LOG_FILE = <<>>
    /\ forecast_lock = FALSE
    /\ requests = <<>>

\* ------------------------------------------------------- NumPy / pandas
Zeros(len) == [i \in 1..len |-> 0]

\* a slice bound as Python normalises it (negative counts from the end)
NormIdx(i, len) == IF i < 0 THEN Max(i + len, 0) ELSE Min(i, len)

\* seq[a:b]
PySlice(seq, a, b) ==
    LET lo == NormIdx(a, Len(seq))
        hi == NormIdx(b, Len(seq))
    IN IF hi <= lo THEN <<>> ELSE SubSeq(seq, lo + 1, hi)

\* number of positions seq[a:b] addresses
SliceLen(seq, a, b) == Max(NormIdx(b, Len(seq)) - NormIdx(a, Len(seq)), 0)

\* seq[a:b] = vals (NumPy raises unless the shapes agree)
SliceFits(seq, a, b, vals) == SliceLen(seq, a, b) = Len(vals)

AssignSlice(seq, a, b, vals) ==
    LET lo == NormIdx(a, Len(seq))
        hi == NormIdx(b, Len(seq))
    IN [i \in 1..Len(seq) |-> IF lo < i /\ i <= hi THEN vals[i - lo] ELSE seq[i]]

\* X.iloc[a:b] of a table of nrows rows, as the sequence of its row indices
IlocRows(nrows, a, b) ==
    LET lo == Min(a, nrows)
        hi == Min(b, nrows)
    IN [j \in 1..Max(hi - lo, 0) |-> lo + j - 1]

\* ------------------------------------------------------------- dates
\* Traindate = "01-03-2025", the fields of the string in the order written
Traindate == <<1, 3, 2025>>

IsLeap(y) == (y % 4 = 0 /\ y % 100 # 0) \/ y % 400 = 0

DaysIn(y, m) ==
    IF m = 2 THEN (IF IsLeap(y) THEN 28 + 1 ELSE 28)
    ELSE IF m \in {4, 6, 9, 11} THEN 30 ELSE 31

\* pd.to_datetime(str, dayfirst=True)
to_datetime(str) == [d |-> str[1], m |-> str[2], y |-> str[3]]

\* ts + DateOffset(months=k): the day is clipped to the month's length
DateOffset(ts, k) ==
    LET mi == ts.y * 12 + (ts.m - 1) + k
        yy == mi \div 12
        mm == (mi % 12) + 1
    IN [d |-> Min(ts.d, DaysIn(yy, mm)), m |-> mm, y |-> yy]

\* the first forecast date without the month offset
startNoOffset == [to_datetime(Traindate) EXCEPT !.d = 1]

\* (Traindate + DateOffset(months=1)).replace(day=1)
start == [DateOffset(to_datetime(Traindate), 1) EXCEPT !.d = 1]

\* pd.date_range(start=st, periods=p, freq='MS'): month starts on or after st
date_range(st, p) ==
    LET first == IF st.d = 1 THEN st ELSE [DateOffset(st, 1) EXCEPT !.d = 1]
    IN [k \in 1..p |-> DateOffset(first, k - 1)]

\* the DateTime string of row i of the climate table (monthly rows)
ClimateDateTime(i) ==
    LET mi == climate.first + i
        yy == mi \div 12
        mm == (mi % 12) + 1
    IN IF climate.fmt = "dd-mm-yyyy" THEN <<1, mm, yy>> ELSE <<yy, mm, 1>>

\* np.where(climate['DateTime'] == Traindate)[0]
WhereTraindate == {i \in 0..(climate.n - 1) : ClimateDateTime(i) = Traindate}

\* ------------------------------------------------------ data and libraries
\* df1[var] at row i
Target(c, i) ==
    Scale * (((((i + 1) * (c + df1.seed)) % 7) - 3) + lib.level + lib.slope * (i \div 12))

\* STL(load, period=12).fit().trend at row i
StlTrend(c, i) == Scale * (lib.level + lib.slope * (i \div 12))

\* pacf(series, nlags=48): 49 values, lag 0 first
pacf(series) ==
    [k \in 1..(NLags + 1) |->
        IF k = 1 THEN Scale
        ELSE IF lib.pacfKind = 1 THEN (k - 1) - 30
        ELSE IF lib.pacfKind = 2 THEN 0 - (k - 1)
        ELSE (((k - 1) * 7) % 11) - 5]

\* a ranking by magnitude: key=lambda k: abs(corrcoef[k])
SortKeyAbs(c, k) == IF c[k + 1] < 0 THEN 0 - c[k + 1] ELSE c[k + 1]

\* the key of the sort: lambda k: corrcoef[k]
SortKey(c, k) == c[k + 1]

\* the place of index k in the stable ascending order of the keys: the number
\* of indices with a smaller key, or an equal key and a smaller index
RankOf(c, k) ==
    Cardinality({j \in 0..(Len(c) - 1) :
        \/ SortKey(c, j) < SortKey(c, k)
        \/ (SortKey(c, j) = SortKey(c, k) /\ j < k)})

Ranks(c) == SubSeq([k \in 1..Len(c) |-> RankOf(c, k - 1)], 1, Len(c))

Place(ranks) ==
    [p \in 1..Len(ranks) |-> (CHOOSE k \in 1..Len(ranks) : ranks[k] = p - 1) - 1]

\* sorted(range(len(c)), key=lambda k: c[k]): the lag indices, ascending by
\* value, equal values in index order (sorted is stable)
SortedIdx(c) == Place(Ranks(c))

\* a filter that lets every positive lag through: ImpLags[ImpLags > 0]
AdmissibleLagAny(k) == k > 0

\* ImpLags[ImpLags > Step_size]
AdmissibleLag(k) == k > Step_size

FilterSeq(seq) == SelectSeq(seq, AdmissibleLag)

\* ImpLags1 as lines 79-95 compute it
SelectLags(c) == PySlice(FilterSeq(SortedIdx(c)), 0, n)

\* a lag column shifted by one row: column[L:LGT] = Y[1:LGT-L+1]
LagColumnShifted(Yv, L) ==
    AssignSlice(Zeros(Len(Yv)), L, Len(Yv), PySlice(Yv, 1, Len(Yv) - L + 1))

\* column r of the lag matrix: zeros, then column[L:LGT] = Y[0:LGT-L]
LagColumn(Yv, L) == AssignSlice(Zeros(Len(Yv)), L, Len(Yv), PySlice(Yv, 0, Len(Yv) - L))

LagColumnFits(Yv, L) == SliceFits(Zeros(Len(Yv)), L, Len(Yv), PySlice(Yv, 0, Len(Yv) - L))

\* ARData / ARF: one column per selected lag
LagMatrix(Yv, lags) == [r \in 1..Len(lags) |-> LagColumn(Yv, lags[r])]

\* the rows one place earlier: matrix[a-1:b-1, :]
MatrixRowsAtPointer(matrix, nrows, a, b) ==
    LET lo == Min(a - 1, nrows)
        hi == Min(b - 1, nrows)
    IN [j \in 1..Max(hi - lo, 0) |-> [r \in 1..Len(matrix) |-> matrix[r][lo + j]]]

\* matrix[a:b, :] as a sequence of rows
MatrixRows(matrix, nrows, a, b) ==
    LET lo == Min(a, nrows)
        hi == Min(b, nrows)
    IN [j \in 1..Max(hi - lo, 0) |-> [r \in 1..Len(matrix) |-> matrix[r][lo + j]]]

\* ML_rgr.predict on one feature row [cov, ar]: a tree split on the first
\* AR feature plus a calendar effect of the covariate row
Predict(row) ==
    LET rgr == lib.rgr
        leaf == IF Len(row.ar) > 0 /\ row.ar[1] > rgr.thr THEN rgr.hi ELSE rgr.lo
    IN Scale * (leaf + ((row.cov % 12) \div 6))

\* the growth term subtracted: y_pred - y_pred*(Step_size/12*cgr)
GrowthAdjustMinus(y, cgr) == y - (y * ((Step_size \div 12) * cgr)) \div Scale

\* y_pred + y_pred*(Step_size/12*cgr)
GrowthAdjust(y, cgr) == y + (y * ((Step_size \div 12) * cgr)) \div Scale

\* fit.forecast(ForecastHorizon) of the Holt model on the smoothed trend
HoltForecast(c, len, h) ==
    [k \in 1..h |-> Scale * (lib.level + c + lib.slope * ((len + k - 1) \div 12))]

\* ------------------------------------------------------- ra2.py: inputs
CgrSet == {4, 50}

HorizonSet == {h \in 1..MaxHorizon : h % 6 = 0 \/ h = MaxHorizon}

\* rows of the climate table after the train-cutoff row
RowsBeyondSet(h) ==
    {rb \in 0..h : rb \in {h, Step_size * (h \div Step_size), Step_size * (h \div Step_size) - 1}}

\* index of the train-cutoff row when the table holds it
TrainIdxSet == {2 * NLags + 1}

Regressors ==
    { [lo |-> 2, hi |-> 2, thr |-> 0],
      [lo |-> 3, hi |-> 1, thr |-> 120],
      [lo |-> 0 - 1, hi |-> 2, thr |-> 0] }

TrainMonth == Traindate[3] * 12 + (Traindate[2] - 1)

EmptyTable == [TestDates |-> <<>>, cols |-> <<>>]

InitLocals ==
    /\ tr_Ind = 0 /\ act_tr_Ind = 0 /\ nSteps = 0 /\ s = 0
    /\ Forecasts = <<>> /\ corrcoef = <<>> /\ pacfArg = <<>> /\ ImpLags1 = <<>>
    /\ Y_tr = <<>> /\ ARData = <<>> /\ Y = <<>> /\ ARF = <<>> /\ X_test = <<>>
    /\ ml_predictions = <<>> /\ future_trend = <<>>

\* a run that fails before it reads an input is the same run whatever that
\* input holds: such runs are explored for one choice of the unread inputs
EarlyFailure == ~df1.present \/ climate.fmt # "dd-mm-yyyy"

CanonicalRest ==
    /\ args.cgr = 4
    /\ df1.nanCol = 0
    /\ lib = [pacfKind |-> 1, level |-> 1, slope |-> 1, rgr |-> [lo |-> 2, hi |-> 2, thr |-> 0]]

InitPipe ==
    /\ args \in [cgr : CgrSet, horizon : HorizonSet]
    /\ \E t \in TrainIdxSet, rb \in RowsBeyondSet(args.horizon),
          fmt \in {"dd-mm-yyyy", "yyyy-mm-dd"} :
          climate = [n |-> t + 1 + rb, first |-> TrainMonth - t, fmt |-> fmt]
    /\ df1 \in [present : BOOLEAN, seed : {1}, nanCol : {0, NumCols}]
    /\ lib \in [pacfKind : 1..3, level : {1}, slope : {0, 1}, rgr : Regressors]
    /\ EarlyFailure => CanonicalRest
    /\ pc = "start"
    /\ var = 1
    /\ TestDates = <<>>
    /\ Forecast_DF = EmptyTable
    /\ outputs \in {[dir |-> FALSE, csv |-> FALSE, table |-> EmptyTable],
                    [dir |-> TRUE, csv |-> TRUE, table |-> EmptyTable]}
    /\ fsOps = <<>>
    /\ returncode = 0 - 1
    /\ failedAt = ""
    /\ InitLocals

\* an unhandled exception ends the interpreter with status 1
Raise(where) ==
    /\ pc' = "failed"
    /\ failedAt' = where
    /\ returncode' = 1

\* lines 229-281: parse the arguments, read the two tables, build TestDates
Start ==
    /\ pc = "start"
    /\ IF ~df1.present
       THEN /\ Raise("read_csv")
            /\ UNCHANGED <<TestDates, Forecast_DF>>
       ELSE /\ TestDates' = date_range(start, args.horizon)
            /\ Forecast_DF' = [TestDates |-> date_range(start, args.horizon), cols |-> <<>>]
            /\ pc' = "call"
            /\ UNCHANGED <<failedAt, returncode>>
    /\ UNCHANGED <<otherVars, args, climate, df1, lib, var, outputs, fsOps>>
    /\ UNCHANGED fnLocals

\* a lookup that answers row 0 when no row matches (np.argmax of the mask)
LookupIndexArgmax ==
    IF WhereTraindate = {} THEN 0
    ELSE CHOOSE i \in WhereTraindate : \A j \in WhereTraindate : i <= j

\* int(np.where(...)[0]): the matching row; raises (-1 here) unless exactly
\* one row matches
LookupIndex ==
    IF Cardinality(WhereTraindate) = 1 THEN CHOOSE i \in WhereTraindate : TRUE ELSE 0 - 1

\* nSteps with the partial block counted
NStepsCeil(h) == (h + Step_size - 1) \div Step_size

\* int(ForecastHorizon/Step_size)
NSteps(h) == h \div Step_size

\* lines 54-66: Forecasting_Func is entered for column var
Lookup ==
    /\ pc = "call"
    /\ IF LookupIndex < 0
       THEN /\ Raise("tr_Ind")
            /\ UNCHANGED <<tr_Ind, act_tr_Ind, Forecasts, nSteps>>
       ELSE /\ tr_Ind' = LookupIndex
            /\ act_tr_Ind' = LookupIndex
            /\ Forecasts' = Zeros(args.horizon)
            /\ nSteps' = NSteps(args.horizon)
            /\ pc' = "train"
            /\ UNCHANGED <<failedAt, returncode>>
    /\ UNCHANGED <<otherVars, args, climate, df1, lib, var, TestDates, Forecast_DF, outputs, fsOps>>
    /\ UNCHANGED <<s, corrcoef, pacfArg, ImpLags1, Y_tr, ARData, Y, ARF, X_test,
                   ml_predictions, future_trend>>

\* element-wise a - b and a + b of two arrays of one length
ArraySub(a, b) == [i \in 1..Len(a) |-> a[i] - b[i]]

ArrayAdd(a, b) == [i \in 1..Len(a) |-> a[i] + b[i]]

\* Target.iloc[0:tr_Ind+1]
TargetUpTo(c, t) == [i \in 1..(t + 1) |-> Target(c, i - 1)]

\* res.trend of STL on the training target
TrendUpTo(c, t) == [i \in 1..(t + 1) |-> StlTrend(c, i - 1)]

\* every column assignment of lines 108-109 / 151-152 has matching shapes
LagMatrixFits(Yv, lags) == \A r \in 1..Len(lags) : LagColumnFits(Yv, lags[r])

\* lines 68-131: lag selection, detrending, training matrix, fit
Train ==
    /\ pc = "train"
    /\ pacfArg' = TargetUpTo(var, tr_Ind)
    /\ corrcoef' = pacf(pacfArg')
    /\ ImpLags1' = SelectLags(corrcoef')
    /\ Y_tr' = ArraySub(TargetUpTo(var, tr_Ind), TrendUpTo(var, tr_Ind))
    /\ IF ~LagMatrixFits(Y_tr', ImpLags1')
       THEN /\ Raise("ARData")
            /\ UNCHANGED <<ARData, Y>>
       ELSE /\ ARData' = LagMatrix(Y_tr', ImpLags1')
            /\ IF df1.nanCol = var
               THEN /\ Raise("fit")
                    /\ UNCHANGED Y
               ELSE /\ Y' = Y_tr'
                    /\ pc' = IF nSteps > 0 THEN "features" ELSE "recompose"
                    /\ UNCHANGED <<failedAt, returncode>>
    /\ s' = 0
    /\ UNCHANGED <<otherVars, args, climate, df1, lib, var, TestDates, Forecast_DF, outputs, fsOps>>
    /\ UNCHANGED <<tr_Ind, act_tr_Ind, nSteps, Forecasts, ARF, X_test,
                   ml_predictions, future_trend>>

\* lines 136-157 of block s: placeholders, lag matrix, feature block
Features ==
    /\ pc = "features"
    /\ Y' = Y \o Zeros(Step_size)
    /\ ARF' = LagMatrix(Y', ImpLags1)
    /\ LET testind == tr_Ind + Step_size
           covRows == IlocRows(climate.n, tr_Ind + 1, testind + 1)
           ARTest == MatrixRows(ARF', Len(Y'), tr_Ind + 1, testind + 1)
       IN /\ IF Len(covRows) # Len(ARTest)
             THEN /\ Raise("concatenate")
                  /\ UNCHANGED X_test
             ELSE /\ X_test' = [j \in 1..Len(covRows) |->
                                   [cov |-> covRows[j], ar |-> ARTest[j]]]
                  /\ pc' = "predict"
                  /\ UNCHANGED <<failedAt, returncode>>
    /\ UNCHANGED <<otherVars, args, climate, df1, lib, var, TestDates, Forecast_DF, outputs, fsOps>>
    /\ UNCHANGED <<tr_Ind, act_tr_Ind, nSteps, s, Forecasts, corrcoef, pacfArg,
                   ImpLags1, Y_tr, ARData, ml_predictions, future_trend>>

\* line 160
PredictAll(X) == [j \in 1..Len(X) |-> Predict(X[j])]

\* line 165
AdjustAll(pred, cgr) == [j \in 1..Len(pred) |-> GrowthAdjust(pred[j], cgr)]

\* the block step with the raw predictions written back into Y:
\* Y[(tr_Ind+1):(testind+1),0] = ml_predictions
PredictBlockRawBack ==
    /\ pc = "predict"
    /\ ml_predictions' = PredictAll(X_test)
    /\ LET testind == tr_Ind + Step_size
           y_pred == AdjustAll(ml_predictions', args.cgr)
       IN /\ Forecasts' = AssignSlice(Forecasts, s * Step_size, (s + 1) * Step_size, y_pred)
          /\ Y' = AssignSlice(Y, tr_Ind + 1, testind + 1, ml_predictions')
          /\ tr_Ind' = testind
    /\ s' = s + 1
    /\ pc' = IF s + 1 < nSteps THEN "features" ELSE "recompose"
    /\ UNCHANGED <<otherVars, args, climate, df1, lib, var, TestDates, Forecast_DF, outputs, fsOps,
                   returncode, failedAt>>
    /\ UNCHANGED <<act_tr_Ind, nSteps, corrcoef, pacfArg, ImpLags1, Y_tr, ARData,
                   ARF, X_test, future_trend>>

\* lines 160-173 of block s: predict, adjust, write back, advance
PredictBlock ==
    /\ pc = "predict"
    /\ ml_predictions' = PredictAll(X_test)
    /\ LET testind == tr_Ind + Step_size
           y_pred == AdjustAll(ml_predictions', args.cgr)
       IN /\ Forecasts' = AssignSlice(Forecasts, s * Step_size, (s + 1) * Step_size, y_pred)
          /\ Y' = AssignSlice(Y, tr_Ind + 1, testind + 1, y_pred)
          /\ tr_Ind' = testind
    /\ s' = s + 1
    /\ pc' = IF s + 1 < nSteps THEN "features" ELSE "recompose"
    /\ UNCHANGED <<otherVars, args, climate, df1, lib, var, TestDates, Forecast_DF, outputs, fsOps,
                   returncode, failedAt>>
    /\ UNCHANGED <<act_tr_Ind, nSteps, corrcoef, pacfArg, ImpLags1, Y_tr, ARData,
                   ARF, X_test, future_trend>>

\* lines 183-219: trend forecast and recomposition (Train = 0)
Recompose ==
    /\ pc = "recompose"
    /\ future_trend' = HoltForecast(var, Len(Y_tr), args.horizon)
    /\ Forecasts' = ArrayAdd(Forecasts, future_trend')
    /\ pc' = "collect"
    /\ UNCHANGED <<otherVars, args, climate, df1, lib, var, TestDates, Forecast_DF, outputs, fsOps,
                   returncode, failedAt>>
    /\ UNCHANGED <<tr_Ind, act_tr_Ind, nSteps, s, corrcoef, pacfArg, ImpLags1, Y_tr,
                   ARData, Y, ARF, X_test, ml_predictions>>

\* the function's locals are gone once it has returned
DropLocals ==
    /\ tr_Ind' = 0 /\ act_tr_Ind' = 0 /\ nSteps' = 0 /\ s' = 0
    /\ Forecasts' = <<>> /\ corrcoef' = <<>> /\ pacfArg' = <<>> /\ ImpLags1' = <<>>
    /\ Y_tr' = <<>> /\ ARData' = <<>> /\ Y' = <<>> /\ ARF' = <<>> /\ X_test' = <<>>
    /\ ml_predictions' = <<>> /\ future_trend' = <<>>

\* the loop of line 285 goes on to the next column or ends
LoopEnds == var >= NumCols

\* the column loop with the write of lines 299-300 indented into its body
CollectAndWrite ==
    /\ pc = "collect"
    /\ Forecast_DF' = [Forecast_DF EXCEPT !.cols =
           Append(@, [k \in 1..Len(Forecast_DF.TestDates) |-> Forecasts[k]])]
    /\ outputs' = [dir |-> TRUE, csv |-> TRUE, table |-> Forecast_DF']
    /\ fsOps' = fsOps \o <<"makedirs", "to_csv">>
    /\ var' = var + 1
    /\ pc' = IF LoopEnds THEN "write" ELSE "call"
    /\ DropLocals
    /\ UNCHANGED <<otherVars, args, climate, df1, lib, TestDates, returncode, failedAt>>

\* lines 288-293: Forecast_DF[var] = df_Forecast['Predictions'], aligned on the index
Collect ==
    /\ pc = "collect"
    /\ Forecast_DF' = [Forecast_DF EXCEPT !.cols =
           Append(@, [k \in 1..Len(Forecast_DF.TestDates) |-> Forecasts[k]])]
    /\ var' = var + 1
    /\ pc' = IF LoopEnds THEN "write" ELSE "call"
    /\ DropLocals
    /\ UNCHANGED <<otherVars, args, climate, df1, lib, TestDates, outputs, fsOps, returncode, failedAt>>

\* lines 299-300: os.makedirs('./outputs'), Forecast_DF.to_csv(...)
WriteOutput ==
    /\ pc = "write"
    /\ outputs' = [dir |-> TRUE, csv |-> TRUE, table |-> Forecast_DF]
    /\ fsOps' = fsOps \o <<"makedirs", "to_csv">>
    /\ returncode' = 0
    /\ pc' = "done"
    /\ UNCHANGED <<otherVars, args, climate, df1, lib, var, TestDates, Forecast_DF, failedAt>>
    /\ UNCHANGED fnLocals

\* ------------------------------------------- growth rate, two runs compared
\* X.iloc[(tr_Ind+1):(testind+1)] as row indices
CovRows(tr) == IlocRows(climate.n, tr + 1, tr + Step_size + 1)

\* np.concatenate((np.array(X_test), ARTest), axis=1), row by row
FeatureRows(cov, ar) == [j \in 1..Len(cov) |-> [cov |-> cov[j], ar |-> ar[j]]]

\* lines 136-173: one pass of the loop body on the locals of a run
BlockStep(run) ==
    LET Yext == run.Y \o Zeros(Step_size)
        testind == run.tr_Ind + Step_size
        ARTest == MatrixRows(LagMatrix(Yext, ImpLags1), Len(Yext), run.tr_Ind + 1, testind + 1)
        raw == PredictAll(FeatureRows(CovRows(run.tr_Ind), ARTest))
        y_pred == AdjustAll(raw, run.cgr)
    IN [cgr |-> run.cgr,
        Y |-> AssignSlice(Yext, run.tr_Ind + 1, testind + 1, y_pred),
        Forecasts |-> AssignSlice(run.Forecasts, run.s * Step_size,
                                  (run.s + 1) * Step_size, y_pred),
        raw |-> AssignSlice(run.raw, run.s * Step_size, (run.s + 1) * Step_size, raw),
        tr_Ind |-> testind,
        s |-> run.s + 1]

\* the locals of a run when the loop of line 133 is entered
LoopEntry(cgr, t) ==
    [cgr |-> cgr,
     Y |-> ArraySub(TargetUpTo(var, t), TrendUpTo(var, t)),
     Forecasts |-> Zeros(args.horizon),
     raw |-> Zeros(args.horizon),
     tr_Ind |-> t,
     s |-> 0]

GrowthSet == {4, 50, Scale}

\* two runs on the same tables, horizon and libraries, with g1 < g2
InitGrowth ==
    /\ \E g1, g2 \in GrowthSet :
          /\ g1 < g2
          /\ args \in [cgr : {g1}, horizon : {h \in HorizonSet : NSteps(h) > 0}]
          /\ \E t \in TrainIdxSet :
                /\ climate = [n |-> t + 1 + args.horizon, first |-> TrainMonth - t,
                              fmt |-> "dd-mm-yyyy"]
                /\ tr_Ind = t
                /\ act_tr_Ind = t
          /\ df1 = [present |-> TRUE, seed |-> 1, nanCol |-> 0]
          /\ lib \in [pacfKind : 1..3, level : {1}, slope : {0, 1}, rgr : Regressors]
          /\ var = 1
          /\ pair = <<g1, g2>>
    /\ pc = "pairtrain"
    /\ nSteps = NSteps(args.horizon)
    /\ TestDates = <<>>
    /\ Forecast_DF = EmptyTable
    /\ outputs = [dir |-> FALSE, csv |-> FALSE, table |-> EmptyTable]
    /\ fsOps = <<>>
    /\ returncode = 0 - 1
    /\ failedAt = ""
    /\ s = 0
    /\ Forecasts = <<>> /\ corrcoef = <<>> /\ pacfArg = <<>> /\ ImpLags1 = <<>>
    /\ Y_tr = <<>> /\ ARData = <<>> /\ Y = <<>> /\ ARF = <<>> /\ X_test = <<>>
    /\ ml_predictions = <<>> /\ future_trend = <<>>
    /\ InitApp

\* lines 68-131 in both runs: the same lags, the same detrended series
GrowthTrain ==
    /\ pc = "pairtrain"
    /\ pacfArg' = TargetUpTo(var, tr_Ind)
    /\ corrcoef' = pacf(pacfArg')
    /\ ImpLags1' = SelectLags(corrcoef')
    /\ pair' = <<LoopEntry(pair[1], tr_Ind), LoopEntry(pair[2], tr_Ind)>>
    /\ pc' = "pair"
    /\ UNCHANGED <<args, climate, df1, lib, var, TestDates, Forecast_DF, outputs,
                   fsOps, returncode, failedAt, tr_Ind, act_tr_Ind, nSteps, s,
                   Forecasts, Y_tr, ARData, Y, ARF, X_test, ml_predictions, future_trend>>
    /\ UNCHANGED appVars

\* both runs execute their next block
GrowthBlock ==
    /\ pc = "pair"
    /\ pair[1].s < nSteps
    /\ pair' = <<BlockStep(pair[1]), BlockStep(pair[2])>>
    /\ UNCHANGED <<pipeVars, appVars>>

NextGrowth ==
    \/ GrowthTrain
    \/ GrowthBlock

SpecGrowth == InitGrowth /\ [][NextGrowth]_vars

\* ------------------------------------------------------------ app.py
\* a request field: <<>> when the body leaves it out (None), <<v>> otherwise
CagrValues == {<<>>, <<0>>, <<8>>, <<CagrLimit>>, <<CagrLimit + 1>>}

HorizonValues == {<<>>, <<0>>, <<12>>, <<HorizonLimit>>, <<HorizonLimit + 1>>}

Bodies == [cagr : CagrValues, horizon : HorizonValues]

\* a bound check that keeps only gt=0
LowerBoundOnly(v, hi) == v > 0

\* Field(gt=0, le=hi)
InBounds(v, hi) == v > 0 /\ v <= hi

\* CAGRUpdate: cagr is required, horizon defaults to 60
ValidCAGRUpdate(b) ==
    /\ Len(b.cagr) = 1
    /\ InBounds(b.cagr[1], CagrLimit)
    /\ Len(b.horizon) = 1 => InBounds(b.horizon[1], HorizonLimit)

\* RunForecastRequest: both fields optional
ValidRunForecastRequest(b) ==
    /\ Len(b.cagr) = 1 => InBounds(b.cagr[1], CagrLimit)
    /\ Len(b.horizon) = 1 => InBounds(b.horizon[1], HorizonLimit)

\* read_cagr_config()
read_cagr_config ==
    IF CAGR_CONFIG.exists
    THEN [cagr |-> CAGR_CONFIG.cagr, horizon |-> CAGR_CONFIG.horizon]
    ELSE [cagr |-> DEFAULT_CAGR, horizon |-> DEFAULT_HORIZON]

\* write_cagr_config(cagr, horizon)
write_cagr_config(cagr, horizon) ==
    CAGR_CONFIG' = [exists |-> TRUE, cagr |-> cagr, horizon |-> horizon]

\* add_audit_entry(action, details, status=...)
add_audit_entry(action, status) ==
    AUDIT_LOG_FILE' = Append(AUDIT_LOG_FILE,
        [id |-> Len(AUDIT_LOG_FILE) + 1, action |-> action, status |-> status])

\* a request that has been answered
Answered(endpoint, status, result) ==
    [endpoint |-> endpoint, pc |-> "done", status |-> status, result |-> result,
     cgr |-> 0, horizon |-> 0, proc |-> "none", returncode |-> 0 - 1]

\* a lock test that never sees the lock held
LockedNever == FALSE

\* _forecast_lock.locked()
Locked == forecast_lock

\* POST /api/cagr
update_cagr(b) ==
    /\ Len(requests) < MaxRequests
    /\ IF ~ValidCAGRUpdate(b)
       THEN /\ requests' = Append(requests, Answered("cagr", 422, ""))
            /\ UNCHANGED CAGR_CONFIG
       ELSE /\ write_cagr_config(b.cagr[1],
                   IF Len(b.horizon) = 1 THEN b.horizon[1] ELSE DEFAULT_HORIZON)
            /\ requests' = Append(requests, Answered("cagr", 200, "updated"))
    /\ UNCHANGED <<FORECAST_CSV, AUDIT_LOG_FILE, forecast_lock>>
    /\ UNCHANGED <<pipeVars, pair>>

\* POST /api/run-forecast up to the await of create_subprocess_exec: the lock
\* test and the acquisition run without an await between them
run_forecast(b) ==
    /\ Len(requests) < MaxRequests
    /\ IF ~ValidRunForecastRequest(b)
       THEN /\ requests' = Append(requests, Answered("run-forecast", 422, ""))
            /\ UNCHANGED <<CAGR_CONFIG, forecast_lock>>
       ELSE IF Locked
       THEN /\ requests' = Append(requests, Answered("run-forecast", 409, ""))
            /\ UNCHANGED <<CAGR_CONFIG, forecast_lock>>
       ELSE LET config == read_cagr_config
                cgr == IF Len(b.cagr) = 1 THEN b.cagr[1] ELSE config.cagr
                horizon == IF Len(b.horizon) = 1 THEN b.horizon[1] ELSE config.horizon
            IN /\ forecast_lock' = TRUE
               /\ write_cagr_config(cgr, horizon)
               /\ requests' = Append(requests,
                     [endpoint |-> "run-forecast", pc |-> "spawn", status |-> 0,
                      result |-> "", cgr |-> cgr, horizon |-> horizon,
                      proc |-> "none", returncode |-> 0 - 1])
    /\ UNCHANGED <<FORECAST_CSV, AUDIT_LOG_FILE>>
    /\ UNCHANGED <<pipeVars, pair>>

\* create_subprocess_exec returns: ra2.py runs with --cgr and --horizon
SpawnProcess(i) ==
    /\ requests[i].pc = "spawn"
    /\ requests' = [requests EXCEPT ![i].pc = "communicate", ![i].proc = "running"]
    /\ UNCHANGED <<CAGR_CONFIG, FORECAST_CSV, AUDIT_LOG_FILE, forecast_lock>>
    /\ UNCHANGED <<pipeVars, pair>>

\* the 500 answer with the lock left held
SpawnRaisesKeepsLock(i) ==
    /\ requests[i].pc = "spawn"
    /\ requests' = [requests EXCEPT ![i] = Answered("run-forecast", 500, "")]
    /\ UNCHANGED <<CAGR_CONFIG, FORECAST_CSV, AUDIT_LOG_FILE, forecast_lock>>
    /\ UNCHANGED <<pipeVars, pair>>

\* create_subprocess_exec raises: HTTP 500, and the async with releases the lock
SpawnRaises(i) ==
    /\ requests[i].pc = "spawn"
    /\ requests' = [requests EXCEPT ![i] = Answered("run-forecast", 500, "")]
    /\ forecast_lock' = FALSE
    /\ UNCHANGED <<CAGR_CONFIG, FORECAST_CSV, AUDIT_LOG_FILE>>
    /\ UNCHANGED <<pipeVars, pair>>

\* ra2.py ends: with status 0 it has written the forecast table of its
\* arguments, with another status it has written nothing
ProcessExits(i, code) ==
    /\ requests[i].proc = "running"
    /\ requests' = [requests EXCEPT ![i].proc = "exited", ![i].returncode = code]
    /\ FORECAST_CSV' =
          IF code = 0
          THEN [exists |-> TRUE, cagr |-> requests[i].cgr, horizon |-> requests[i].horizon]
          ELSE FORECAST_CSV
    /\ UNCHANGED <<CAGR_CONFIG, AUDIT_LOG_FILE, forecast_lock>>
    /\ UNCHANGED <<pipeVars, pair>>

\* communicate() returns: audit entry, response, release of the lock
Communicate(i) ==
    /\ requests[i].pc = "communicate"
    /\ requests[i].proc = "exited"
    /\ IF requests[i].returncode # 0
       THEN /\ add_audit_entry("run_forecast", "error")
            /\ requests' = [requests EXCEPT ![i] = Answered("run-forecast", 200, "error")]
       ELSE /\ add_audit_entry("run_forecast", "success")
            /\ requests' = [requests EXCEPT ![i] = Answered("run-forecast", 200, "success")]
    /\ forecast_lock' = FALSE
    /\ UNCHANGED <<CAGR_CONFIG, FORECAST_CSV>>
    /\ UNCHANGED <<pipeVars, pair>>

\* GET /api/forecast: 404 without a forecast file; else the rows of the file
\* with the cagr and horizon of the stored configuration
get_forecast_data ==
    /\ Len(requests) < MaxRequests
    /\ IF ~FORECAST_CSV.exists
       THEN requests' = Append(requests, Answered("forecast", 404, ""))
       ELSE LET config == read_cagr_config
            IN requests' = Append(requests,
                  [endpoint |-> "forecast", pc |-> "done", status |-> 200,
                   result |-> "data", cgr |-> config.cagr, horizon |-> config.horizon,
                   proc |-> "none", returncode |-> 0 - 1,
                   data |-> [cagr |-> FORECAST_CSV.cagr, horizon |-> FORECAST_CSV.horizon]])
    /\ UNCHANGED <<CAGR_CONFIG, FORECAST_CSV, AUDIT_LOG_FILE, forecast_lock>>
    /\ UNCHANGED <<pipeVars, pair>>

InitService ==
    /\ InitApp
    /\ pair = <<>>
    /\ args = [cgr |-> DEFAULT_CAGR, horizon |-> DEFAULT_HORIZON]
    /\ climate = [n |-> 0, first |-> TrainMonth, fmt |-> "dd-mm-yyyy"]
    /\ df1 = [present |-> TRUE, seed |-> 1, nanCol |-> 0]
    /\ lib = [pacfKind |-> 1, level |-> 1, slope |-> 1, rgr |-> [lo |-> 2, hi |-> 2, thr |-> 0]]
    /\ pc = "service"
    /\ var = 1
    /\ TestDates = <<>>
    /\ Forecast_DF = EmptyTable
    /\ outputs = [dir |-> TRUE, csv |-> FALSE, table |-> EmptyTable]
    /\ fsOps = <<>>
    /\ returncode = 0 - 1
    /\ failedAt = ""
    /\ InitLocals

NextService ==
    \/ \E b \in Bodies : update_cagr(b)
    \/ \E b \in Bodies : run_forecast(b)
    \/ \E i \in 1..Len(requests) : SpawnProcess(i)
    \/ \E i \in 1..Len(requests) : SpawnRaises(i)
    \/ \E i \in 1..Len(requests), code \in {0, 1} : ProcessExits(i, code)
    \/ \E i \in 1..Len(requests) : Communicate(i)
    \/ get_forecast_data

SpecApp == InitService /\ [][NextService]_vars

\* a handler past an await is resumed by the event loop once the awaited
\* call has returned or raised, and ra2.py, a batch script, ends
HandlerResumes ==
    \E i \in 1..Len(requests) : SpawnProcess(i) \/ SpawnRaises(i) \/ Communicate(i)

SubprocessEnds == \E i \in 1..Len(requests), code \in {0, 1} : ProcessExits(i, code)

SpecAppFair == SpecApp /\ WF_vars(HandlerResumes) /\ WF_vars(SubprocessEnds)

Init == InitPipe /\ pair = <<>> /\ InitApp

Next ==
    \/ Start
    \/ Lookup
    \/ Train
    \/ Features
    \/ PredictBlock
    \/ Recompose
    \/ Collect
    \/ WriteOutput

Spec == Init /\ [][Next]_vars

\* ------------------------------------------------------------ properties
\* rows of the climate table after the train-cutoff row
\* no row of the climate table carries the train-cutoff string
NoTrainRow == \A i \in 0..(climate.n - 1) : ClimateDateTime(i) # Traindate

\* the rows of the climate table after the train-cutoff row
RowsBeyond ==
    climate.n - 1 - (CHOOSE i \in 0..(climate.n - 1) : ClimateDateTime(i) = Traindate)

Range(seq) == {seq[i] : i \in 1..Len(seq)}

InFunction == pc \in {"train", "features", "predict", "recompose", "collect"}

\* C2: the forecast table a run writes has horizon rows, dated the first day
\* of the horizon consecutive months after the train-cutoff month, and one
\* value per row for each of the NumCols target columns; a run whose inputs
\* are valid (tables present, cutoff date found, covariates for every block,
\* numeric targets) does not fail.
C2_ForecastTableShape ==
    /\ "to_csv" \in Range(fsOps) =>
          LET tb == outputs.table
          IN /\ Len(tb.TestDates) = args.horizon
             /\ \A k \in 1..args.horizon :
                   /\ tb.TestDates[k].d = 1
                   /\ tb.TestDates[k].m \in 1..12
                   /\ tb.TestDates[k].y * 12 + (tb.TestDates[k].m - 1) = TrainMonth + k
             /\ Len(tb.cols) = NumCols
             /\ \A c \in 1..NumCols : Len(tb.cols[c]) = args.horizon
    /\ pc = "failed" =>
          \/ ~df1.present
          \/ NoTrainRow
          \/ df1.nanCol # 0
          \/ RowsBeyond < Step_size * (args.horizon \div Step_size)

C2_Witness ==
    /\ pc = "done"
    /\ args.horizon > 12
    /\ args.horizon % 12 # 0
    /\ outputs.table.TestDates[args.horizon].y > Traindate[3]

\* C3: the block loop runs floor(horizon/12) times and leaves the residual
\* positions from 12*nSteps on at zero, so that after the trend forecast is
\* added the forecast there is the trend forecast alone.
C3_PartialBlockIsTrendOnly ==
    InFunction =>
       /\ nSteps * Step_size <= args.horizon
       /\ args.horizon < (nSteps + 1) * Step_size
       /\ s <= nSteps
       /\ Len(Forecasts) = args.horizon
       /\ pc = "recompose" => s = nSteps
       /\ pc \in {"features", "predict", "recompose"} =>
             \A k \in (s * Step_size + 1)..args.horizon : Forecasts[k] = 0
       /\ pc = "collect" =>
             /\ s = nSteps
             /\ \A k \in (nSteps * Step_size + 1)..args.horizon :
                   Forecasts[k] = future_trend[k]

C3_Witness ==
    /\ pc = "collect"
    /\ nSteps = 1
    /\ args.horizon = 18
    /\ Forecasts[12] # future_trend[12]
    /\ Forecasts[18] = future_trend[18]

\* C4: when no row of the climate table's date column equals the train-cutoff
\* string, the run never gets past the lookup of the first column; it ends
\* with a non-zero exit there and changes nothing under ./outputs.
C4_MissingTrainDateFailsFirst ==
    /\ [](NoTrainRow =>
            /\ pc \in {"start", "call", "failed"}
            /\ var = 1
            /\ fsOps = <<>>
            /\ pc \in {"start", "call"} => ENABLED Next
            /\ pc = "failed" =>
                  /\ returncode > 0
                  /\ df1.present => failedAt = "tr_Ind")
    /\ [][NoTrainRow => outputs' = outputs]_vars

C4_Witness ==
    /\ NoTrainRow
    /\ pc = "failed"
    /\ failedAt = "tr_Ind"
    /\ outputs.csv

\* C5: a run whose climate table holds fewer than horizon rows after the
\* train-cutoff row never completes and writes no forecast table.
C5_ShortCovariatesFail ==
    (~NoTrainRow /\ RowsBeyond < args.horizon) =>
        /\ pc # "done"
        /\ "to_csv" \notin Range(fsOps)

\* C6: the forecast file is written once, by the last statement of a run that
\* has forecast every column; a run that fails, in whichever column, has
\* made no change under ./outputs.
C6_WriteOnceAtEnd ==
    /\ [](/\ pc = "failed" => fsOps = <<>> /\ outputs.table = EmptyTable
          /\ pc # "done" => "to_csv" \notin Range(fsOps)
          /\ pc = "done" =>
                /\ fsOps = <<"makedirs", "to_csv">>
                /\ outputs.table = Forecast_DF
                /\ Len(outputs.table.cols) = NumCols)
    /\ [][outputs' # outputs => pc = "write" /\ pc' = "done" /\ var > NumCols]_vars

C6_Witness ==
    /\ pc = "failed"
    /\ failedAt = "fit"
    /\ var > 1
    /\ Len(Forecast_DF.cols) >= 1
    /\ outputs.csv

\* the value a lag column holds at Python row r for lag L over series Yv
LagValue(Yv, L, r) == IF r < L THEN 0 ELSE Yv[(r - L) + 1]

IsLagMatrix(matrix, Yv) ==
    /\ Len(matrix) = Len(ImpLags1)
    /\ \A r \in 1..Len(ImpLags1) :
          /\ Len(matrix[r]) = Len(Yv)
          /\ \A row \in 0..(Len(Yv) - 1) :
                matrix[r][row + 1] = LagValue(Yv, ImpLags1[r], row)
          /\ ImpLags1[r] < Len(Yv) => matrix[r][ImpLags1[r] + 1] = Yv[1]

\* C9: in the training matrix and in the lag matrix of every block, the
\* column of lag L is zero in rows 0..L-1 and holds at row r >= L the working
\* detrended value of row r-L; row L holds the value of position 0.
C9_LagPadding ==
    /\ pc \in {"features", "predict", "recompose", "collect"} => IsLagMatrix(ARData, Y_tr)
    /\ pc = "predict" => IsLagMatrix(ARF, Y)

C9_Witness ==
    /\ pc = "predict"
    /\ s >= 1
    /\ \E r \in 1..Len(ImpLags1) :
          /\ ImpLags1[r] < Len(Y_tr)
          /\ ARF[r][ImpLags1[r] + 1] = Y_tr[1]
          /\ Y_tr[1] # 0
          /\ ARF[r][Len(Y)] # 0
          /\ Len(Y) - ImpLags1[r] > act_tr_Ind + 1

C7_GrowthMonotoneEveryBlock ==
    pc = "pair" =>
       \A k \in 1..(pair[1].s * Step_size) :
          (pair[1].raw[k] > 0 /\ pair[2].raw[k] > 0) =>
             pair[2].Forecasts[k] > pair[1].Forecasts[k]

\* C7 amended: in the first block the two runs get the same regressor
\* prediction and, where it is positive, the residual forecast under g2 is
\* greater; in a later block this holds at the positions where the prediction
\* under g2 is positive and not smaller than under g1.
C7_GrowthMonotoneFirstBlock ==
    pc = "pair" =>
       /\ \A k \in 1..Min(Step_size, pair[1].s * Step_size) :
             /\ pair[2].raw[k] = pair[1].raw[k]
             /\ pair[1].raw[k] > 0 => pair[2].Forecasts[k] > pair[1].Forecasts[k]
       /\ \A k \in 1..(pair[1].s * Step_size) :
             (pair[1].raw[k] > 0 /\ pair[2].raw[k] >= pair[1].raw[k]) =>
                pair[2].Forecasts[k] > pair[1].Forecasts[k]

C7_Witness ==
    /\ pc = "pair"
    /\ pair[1].s = 2
    /\ pair[1].raw[1] > 0
    /\ pair[2].Forecasts[1] > pair[1].Forecasts[1]
    /\ \E k \in (Step_size + 1)..(2 * Step_size) :
          /\ pair[1].raw[k] > 0
          /\ pair[2].raw[k] = pair[1].raw[k]
          /\ pair[2].Forecasts[k] > pair[1].Forecasts[k]
    /\ \E k \in (Step_size + 1)..(2 * Step_size) : pair[2].raw[k] # pair[1].raw[k]

Last(seq) == seq[Len(seq)]

Running == {i \in 1..Len(requests) : requests[i].proc = "running"}

InFlight == {i \in 1..Len(requests) : requests[i].pc # "done"}

\* C1: at most one ra2.py subprocess runs and at most one run-forecast
\* handler is past the lock test, and it holds the lock; a well-formed
\* run-forecast request received while the lock is held is answered 409 at
\* once, changes nothing, and never runs afterwards.
C1_SingleRunInFlight ==
    /\ [](/\ Cardinality(Running) <= 1
          /\ Cardinality(InFlight) <= 1
          /\ InFlight # {} => forecast_lock)
    /\ [][(/\ Len(requests') = Len(requests) + 1
           /\ forecast_lock
           /\ Last(requests').endpoint = "run-forecast"
           /\ Last(requests').status # 422)
          => /\ Last(requests').status = 409
             /\ Last(requests').pc = "done"
             /\ Last(requests').proc = "none"
             /\ UNCHANGED <<CAGR_CONFIG, FORECAST_CSV, AUDIT_LOG_FILE, forecast_lock>>]_vars
    /\ [][\A i \in 1..Len(requests) :
             requests[i].status = 409 => requests'[i] = requests[i]]_vars

C1_Witness ==
    \E i, j \in 1..Len(requests) :
       /\ i < j
       /\ requests[i].proc = "running"
       /\ requests[j].endpoint = "run-forecast"
       /\ requests[j].status = 409

ParamsInBounds(c, h) == c > 0 /\ c <= Scale /\ h > 0 /\ h <= 120

\* C8: the stored run configuration, the arguments of every run-forecast
\* handler and subprocess, and the parameters of the forecast written lie in
\* (0,1] x (0,120]; a request refused as out of bounds changes neither the
\* configuration record nor the forecast file.
C8_RunParametersInBounds ==
    /\ [](/\ CAGR_CONFIG.exists => ParamsInBounds(CAGR_CONFIG.cagr, CAGR_CONFIG.horizon)
          /\ FORECAST_CSV.exists => ParamsInBounds(FORECAST_CSV.cagr, FORECAST_CSV.horizon)
          /\ \A i \in InFlight : ParamsInBounds(requests[i].cgr, requests[i].horizon))
    /\ [][(/\ Len(requests') = Len(requests) + 1
           /\ Last(requests').status = 422)
          => UNCHANGED <<CAGR_CONFIG, FORECAST_CSV>>]_vars

C8_Witness ==
    \E i, j \in 1..Len(requests) :
       /\ j < i
       /\ requests[j].status = 422
       /\ requests[i].proc = "running"
       /\ requests[i].cgr = Scale
       /\ requests[i].horizon = 120
       /\ CAGR_CONFIG = [exists |-> TRUE, cagr |-> Scale, horizon |-> 120]

\* the train-cutoff row of the climate table
TrainRow == CHOOSE i \in 0..(climate.n - 1) : ClimateDateTime(i) = Traindate

\* the training target of column c minus its STL trend, rows 0..t
DetrendedTarget(c, t) == [i \in 1..(t + 1) |-> Target(c, i - 1) - StlTrend(c, i - 1)]

\* C11: the series handed to pacf is the training target minus its extracted
\* trend, over rows 0..train-index.
C11_PacfOverDetrendedTarget ==
    pacfArg # <<>> =>
       /\ Len(pacfArg) = TrainRow + 1
       /\ pacfArg = DetrendedTarget(var, TrainRow)

\* control is inside the loop of line 133, or has just left it
InLoop == pc \in {"features", "predict", "recompose"}

\* the row of Y (0-based) that lag column r holds at the j-th row of block s
LagSource(j, r) == (act_tr_Ind + s * Step_size + j) - ImpLags1[r]

\* C12: the 12 values block s stores at output positions 12s..12s+11 are the
\* regressor's raw predictions times (1 + cgr); the working array holds the
\* same values at the block's placeholder positions; no later step of the loop
\* changes a value an earlier block stored; a lag feature of a later block
\* that reaches past the training rows reads such an adjusted value.
C12_AdjustedValuesWrittenBack ==
    /\ [](InLoop =>
            /\ \A k \in 1..(s * Step_size) : Forecasts[k] = Y[act_tr_Ind + 1 + k]
            /\ s >= 1 =>
                  \A j \in 1..Step_size :
                     Forecasts[(s - 1) * Step_size + j] * Scale
                        = ml_predictions[j] * (Scale + args.cgr)
            /\ pc = "predict" =>
                  \A j \in 1..Step_size, r \in 1..Len(ImpLags1) :
                     LagSource(j, r) > act_tr_Ind =>
                        X_test[j].ar[r] = Forecasts[LagSource(j, r) - act_tr_Ind])
    /\ [][(pc = "features" \/ pc = "predict") =>
             \A k \in 1..(s * Step_size) :
                (Forecasts'[k] = Forecasts[k]
                   /\ Y'[act_tr_Ind + 1 + k] = Y[act_tr_Ind + 1 + k])]_vars

C12_Witness ==
    /\ pc = "predict"
    /\ s = 2
    /\ args.cgr > 0
    /\ ml_predictions[1] # 0
    /\ Forecasts[Step_size + 1] # ml_predictions[1]
    /\ \E j \in 1..Step_size, r \in 1..Len(ImpLags1) :
          /\ LagSource(j, r) > act_tr_Ind + Step_size
          /\ X_test[j].ar[r] # 0
          /\ X_test[j].ar[r] = Forecasts[LagSource(j, r) - act_tr_Ind]

\* the row (0-based) of the covariate table and of the lag matrix that belongs
\* to output position 12s+j
BlockRow(j) == TrainRow + 1 + s * Step_size + j

\* C13: with t the train-cutoff row, every column starts its pointer at t;
\* at the start of block s the working array has length pointer+1 and the
\* pointer is t+12s; the feature row for output position 12s+j is covariate
\* row t+1+12s+j joined with lag-matrix row t+1+12s+j; after the last block
\* the working array has length t+1+12*nSteps.
C13_IndexAlignment ==
    /\ pc = "train" => tr_Ind = TrainRow /\ act_tr_Ind = TrainRow
    /\ pc = "features" =>
          /\ tr_Ind = TrainRow + s * Step_size
          /\ Len(Y) = tr_Ind + 1
    /\ pc = "predict" =>
          /\ Len(Y) = tr_Ind + 1 + Step_size
          /\ Len(X_test) = Step_size
          /\ \A j \in 0..(Step_size - 1) :
                /\ X_test[j + 1].cov = BlockRow(j)
                /\ Len(X_test[j + 1].ar) = Len(ImpLags1)
                /\ \A r \in 1..Len(ImpLags1) :
                      X_test[j + 1].ar[r] = ARF[r][BlockRow(j) + 1]
    /\ pc = "recompose" =>
          /\ s = nSteps
          /\ tr_Ind = TrainRow + nSteps * Step_size
          /\ Len(Y) = TrainRow + 1 + nSteps * Step_size

C13_Witness ==
    /\ pc = "predict"
    /\ var = 2
    /\ s = 1
    /\ tr_Ind = TrainRow + Step_size
    /\ \E j \in 0..(Step_size - 1), r \in 1..Len(ImpLags1) :
          /\ X_test[j + 1].ar[r] # 0
          /\ X_test[j + 1].ar[r] # ARF[r][BlockRow(j)]

\* C14: every lag used is above the block size, so each AR value fed to the
\* regressor in block s comes from a row before the block's first row: it is
\* a left-padding zero, a detrended historical value, or the growth-adjusted
\* forecast an earlier block stored; never a placeholder of block s itself.
C14_NoSameBlockPlaceholder ==
    pc = "predict" =>
       \A j \in 1..Step_size, r \in 1..Len(ImpLags1) :
          /\ ImpLags1[r] > Step_size
          /\ LagSource(j, r) < act_tr_Ind + 1 + s * Step_size
          /\ X_test[j].ar[r] =
                IF LagSource(j, r) < 0 THEN 0
                ELSE IF LagSource(j, r) <= act_tr_Ind THEN Y_tr[LagSource(j, r) + 1]
                ELSE Forecasts[LagSource(j, r) - act_tr_Ind]
          /\ LagSource(j, r) > act_tr_Ind =>
                (LagSource(j, r) - act_tr_Ind) <= s * Step_size

C14_Witness ==
    /\ pc = "predict"
    /\ s = 1
    /\ \E r \in 1..Len(ImpLags1) :
          /\ ImpLags1[r] = Step_size + 1
          /\ LagSource(Step_size, r) = act_tr_Ind + Step_size - 1
          /\ X_test[Step_size].ar[r] = Forecasts[Step_size - 1]
          /\ X_test[Step_size].ar[r] # 0
          /\ X_test[1].ar[r] = Y_tr[act_tr_Ind + 1]
    /\ \A k \in (Step_size + 1)..(2 * Step_size) : Y[act_tr_Ind + 1 + k] = 0

\* the answers of the forecast-read endpoint that carry forecast rows
ForecastReads ==
    {i \in 1..Len(requests) : requests[i].endpoint = "forecast" /\ requests[i].status = 200}

\* C16: the cagr and horizon a forecast read returns with the forecast rows
\* are the arguments of the run that wrote the rows it returns.
C16_ForecastReadParamsOfProducingRun ==
    \A i \in ForecastReads :
       /\ requests[i].cgr = requests[i].data.cagr
       /\ requests[i].horizon = requests[i].data.horizon

\* C15: the lock is free whenever no run-forecast handler is inside the lock
\* block; the step that ends a run (success, non-zero exit, or an exception
\* when starting the subprocess) releases it; a well-formed run-forecast
\* request received when no run is in flight is accepted, not answered 409;
\* and a held lock is always released later.
C15_LockReleasedWhenRunEnds ==
    /\ [](InFlight = {} => ~forecast_lock)
    /\ [][\A i \in 1..Len(requests) :
             (requests[i].pc # "done" /\ requests'[i].pc = "done") => ~forecast_lock']_vars
    /\ [][(/\ Len(requests') = Len(requests) + 1
           /\ InFlight = {}
           /\ Last(requests').endpoint = "run-forecast"
           /\ Last(requests').status # 422)
          => /\ Last(requests').status # 409
             /\ Last(requests').pc = "spawn"
             /\ forecast_lock']_vars
    /\ forecast_lock ~> ~forecast_lock

C15_Witness ==
    /\ Len(requests) = 3
    /\ requests[1].endpoint = "run-forecast"
    /\ requests[1].status = 500
    /\ requests[2].endpoint = "run-forecast"
    /\ requests[2].result = "error"
    /\ requests[3].endpoint = "run-forecast"
    /\ requests[3].proc = "running"
    /\ forecast_lock

====
